---------------------------- MODULE Spec2Model ----------------------------
(***************************************************************************)
(* Model of the Aidstack Medical AI backend (src/app.py): the in-memory    *)
(* session map ACTIVE_SESSIONS, the audit log sink, and the four POST      *)
(* handlers (create_session, process_transcription, validate_session,      *)
(* destroy_session) run by concurrent worker threads.  A handler is split  *)
(* into steps at its accesses to the shared state (the session map, the    *)
(* log sink), so that the threads interleave the way the interpreter can   *)
(* interleave them.  A step holds one access to the shared state and the   *)
(* thread-local work around it; receiving a request is part of the         *)
(* handler's first step.                                                   *)
(***************************************************************************)
EXTENDS Integers, Sequences, FiniteSets, TLC

(***************************************************************************)
(* Bounds of the model.                                                    *)
(***************************************************************************)
\* requests served in one behaviour
MaxRequests == 3
\* transcribe requests among them
MaxTranscribes == 1
\* advances of the wall clock in one behaviour
MaxTicks == 1

\* the worker threads serving requests concurrently
Threads == {"w1", "w2"}
ThreadOrder == [th \in Threads |-> IF th = "w1" THEN 1 ELSE 2]

\* 'expires_in': 3600 of the create response
ExpiresIn == 3600
\* one advance of the clock passes the advertised lifetime
TickStep == ExpiresIn + 1

(***************************************************************************)
(* Python / JSON values.  A value carries its type, because the handlers   *)
(* behave differently on None, on strings and on unhashable values.        *)
(***************************************************************************)
None == [type |-> "NoneType"]
Str(s) == [type |-> "str", val |-> s]
\* a non-empty JSON array, e.g. ["x"]: truthy and unhashable
List == [type |-> "list"]
\* the key is not in the JSON object: dict.get returns its default
Absent == [type |-> "absent"]

IsStr(v) == v.type = "str"

\* bool(v) of Python for the values of the model
Truthy(v) == IF IsStr(v) THEN v.val # "" ELSE v.type = "list"

\* dict.get(key, default)
Get(data, key, default) == IF data[key] = Absent THEN default ELSE data[key]

\* str.__contains__: t occurs in s
Contains(s, t) ==
    \E i \in 1..(Len(s) - Len(t) + 1) : SubSeq(s, i, i + Len(t) - 1) = t

(***************************************************************************)
(* Tokens.  secrets.token_urlsafe(32) yields 43 URL-safe characters drawn  *)
(* from 256 random bits; the model draws from two such values.             *)
(***************************************************************************)
TokenA == "-J5M7I2wMyTxLnw_ugBsbS3sQwrz432cg2gfBJfOUGU"
TokenB == "C2fYoziP37BDkdrEntjDrv7z3UKjTOLi7ysz5mpUQt4"
Tokens == {TokenA, TokenB}

\* what a client may put in the session_token field
ClientTokens == {Str(t) : t \in Tokens} \cup {Str(""), Absent, List}

\* transcription texts a client may send (or null, or no field)
Texts == {"patient has fever"}
ClientTranscriptions == {Str(t) : t \in Texts} \cup {Str(""), None, Absent}

\* the provider keys process_with_ai dispatches on
Providers == {"openai", "anthropic", "groq"}
ClientModels == {Str(m) : m \in Providers} \cup {Str("foo"), Absent}

\* texts the external provider may return
ProviderTexts == {"stub-response", "{}"}

(***************************************************************************)
(* hash_sensitive_data: hashlib.sha256(data.encode()).hexdigest()[:16].    *)
(* The digests are the real ones for the strings the model hashes.         *)
(***************************************************************************)
Sha256Hex16(s) ==
    CASE s = TokenA -> "a2498494f26a05f7"
      [] s = TokenB -> "a066fa808eedf884"
      [] s = "patient has fever" -> "4eb99d28bd7f6ede"
      [] s = "" -> "e3b0c44298fc1c14"

\* data.encode() exists on str only
CanHash(v) == IsStr(v)
\* the data itself instead of its digest
HashLeftOut(v) == v.val
hash_sensitive_data(v) == Sha256Hex16(v.val)

\* a Python int
PyInt(n) == [type |-> "int", val |-> n]
\* a raised exception: its class and str(e)
Exc(cls, msg) == [type |-> cls, msg |-> msg]

VARIABLES
    ACTIVE_SESSIONS,  \* token -> [created_at, last_active]
    logSink,          \* the lines written to audit.log, in order
    now,              \* datetime.utcnow(), in seconds
    ticks,            \* advances of the clock so far
    pc,               \* per thread: the step its handler is at
    request,          \* per thread: the request it serves
    frame,            \* per thread: the handler's local variables
    completed,        \* the request answered last, with its response
    issued,           \* requests received so far
    transcribes,      \* transcribe requests among them
    generated,        \* tokens generate_session_token has returned
    history           \* tokens returned by create, tokens a destroy was
                      \* received for, tokens a destroy is over for

vars == <<ACTIVE_SESSIONS, logSink, now, ticks, pc, request, frame,
          completed, issued, transcribes, generated, history>>

NoRequest == [endpoint |-> "none", data |-> None,
              after_create |-> FALSE, before_destroy |-> FALSE,
              after_destroy |-> FALSE]
\* session_token, transcription, model_type, e: the locals of the handler;
\* the other fields record what the handler did
NoFrame == [session_token |-> None, transcription |-> None,
            model_type |-> None, e |-> None,
            found |-> FALSE, age |-> 0, touched |-> FALSE, audits |-> << >>,
            provider_calls |-> 0, provider_text |-> None]
NoResponse == [status |-> 0, body |-> None]
NoCompleted == [request |-> NoRequest, frame |-> NoFrame,
                response |-> NoResponse]

\* the session map as a function built one way only
EmptySessions == [t \in {} |-> None]
\* the entry is stored under the digest of the token
InsertUnderHash(sessions, k, v) ==
    [t \in (DOMAIN sessions) \cup {Sha256Hex16(k)} |->
        IF t = Sha256Hex16(k) THEN v ELSE sessions[t]]
Insert(sessions, k, v) ==
    [t \in (DOMAIN sessions) \cup {k} |-> IF t = k THEN v ELSE sessions[t]]
\* the entry is left in place
DeleteNothing(sessions, k) == sessions
Delete(sessions, k) == [t \in (DOMAIN sessions) \ {k} |-> sessions[t]]

\* a session older than expires_in counts as gone
InSessionsUnexpired(v) ==
    /\ IsStr(v)
    /\ v.val \in DOMAIN ACTIVE_SESSIONS
    /\ now - ACTIVE_SESSIONS[v.val].created_at <= ExpiresIn
\* `v in ACTIVE_SESSIONS` for a hashable v
InSessions(v) == IsStr(v) /\ v.val \in DOMAIN ACTIVE_SESSIONS
\* hash(v) raises TypeError
Unhashable(v) == v.type = "list"

Init ==
    /\ ACTIVE_SESSIONS = EmptySessions
    /\ logSink = << >>
    /\ now = 0
    /\ ticks = 0
    /\ pc = [th \in Threads |-> "idle"]
    /\ request = [th \in Threads |-> NoRequest]
    /\ frame = [th \in Threads |-> NoFrame]
    /\ completed = NoCompleted
    /\ issued = 0
    /\ transcribes = 0
    /\ generated = {}
    /\ history = [returned |-> {}, destroy_issued |-> {}, destroyed |-> {}]

(***************************************************************************)
(* The log sink.  audit_log writes one INFO line "AUDIT: {log_entry}";     *)
(* logger.error writes one ERROR line.  The timestamp of a log line and of *)
(* a response is left out: nothing reads it back.                          *)
(***************************************************************************)
AuditLine(event_type, details, session_id) ==
    [levelname |-> "INFO",
     audit |-> [event |-> event_type,
                session_id |-> session_id, details |-> details]]

ErrorLine(message) == [levelname |-> "ERROR", message |-> message]

\* audit_log(event_type, details, session_id=None)
audit_log(event_type, details, session_id) ==
    logSink' = Append(logSink, AuditLine(event_type, details, session_id))

\* the locals fr of a handler, with the line it has just written noted
Audited(fr, event_type, details, session_id) ==
    [fr EXCEPT !.audits = Append(@, AuditLine(event_type, details, session_id))]

(***************************************************************************)
(* A client sends a request; a free worker thread serves it.               *)
(***************************************************************************)
\* the JSON bodies a client may send: an object holding (or not) a
\* session_token, or a body that is no object (request.get_json() is None)
Bodies == {[session_token |-> v] : v \in ClientTokens} \cup {None}

TokenOf(data) ==
    IF data = None THEN None ELSE Get(data, "session_token", None)

\* the threads of the pool are alike: the first free one takes the request
Picks(th) ==
    /\ pc[th] = "idle"
    /\ \A other \in Threads :
          pc[other] = "idle" => ThreadOrder[th] <= ThreadOrder[other]

\* the request the thread receives
Received(endpoint, data) ==
    LET t == TokenOf(data)
    IN  [endpoint |-> endpoint, data |-> data,
         after_create |-> IsStr(t) /\ t.val \in history.returned,
         before_destroy |-> IsStr(t) /\ t.val \notin history.destroy_issued,
         after_destroy |-> IsStr(t) /\ t.val \in history.destroyed]

\* thread th receives the request and goes on at step `next` with locals fr
Begin(th, endpoint, data, fr, next) ==
    /\ Picks(th)
    /\ issued < MaxRequests
    /\ issued' = issued + 1
    /\ request' = [request EXCEPT ![th] = Received(endpoint, data)]
    /\ frame' = [frame EXCEPT ![th] = fr]
    /\ pc' = [pc EXCEPT ![th] = next]

\* the handler of th goes on at step `next` with locals fr
Goto(th, fr, next) ==
    /\ frame' = [frame EXCEPT ![th] = fr]
    /\ pc' = [pc EXCEPT ![th] = next]
    /\ UNCHANGED <<request, issued>>

\* the handler of request req returns jsonify(body), status; the thread is free
Return(th, req, fr, status, body) ==
    /\ completed' = [request |-> req, frame |-> fr,
                     response |-> [status |-> status, body |-> body]]
    /\ pc' = [pc EXCEPT ![th] = "idle"]
    /\ request' = [request EXCEPT ![th] = NoRequest]
    /\ frame' = [frame EXCEPT ![th] = NoFrame]

\* time passes
Tick ==
    /\ ticks < MaxTicks
    /\ ticks' = ticks + 1
    /\ now' = now + TickStep
    /\ UNCHANGED <<ACTIVE_SESSIONS, logSink, pc, request, frame, completed,
                   issued, transcribes, generated, history>>

(***************************************************************************)
(* Exceptions.  str(KeyError(k)) is repr(k): the key between quotes.       *)
(***************************************************************************)
NoAttribute(attr) ==
    Exc("AttributeError", "'NoneType' object has no attribute '" \o attr \o "'")
UnhashableType == Exc("TypeError", "unhashable type: 'list'")
KeyError(k) == Exc("KeyError", "'" \o k \o "'")

\* an exception leaves a handler that has no try: the framework logs it
\* and answers 500 itself
Unhandled(th, req, fr, exc) ==
    /\ logSink' = Append(logSink, ErrorLine(
          "Exception on /api/session/" \o req.endpoint \o " [POST] "
             \o exc.type \o ": " \o exc.msg))
    /\ Return(th, req, [fr EXCEPT !.e = exc], 500,
              [html |-> Str("Internal Server Error")])

(***************************************************************************)
(* POST /api/session/create                                                *)
(***************************************************************************)
\* a value that may have been returned before (a short or seeded token)
AnyToken == Tokens
\* secrets.token_urlsafe(32): a value not returned before
generate_session_token == Tokens \ generated

\* session_token = generate_session_token(); ACTIVE_SESSIONS[session_token] = {...}
create_session(th) ==
    /\ \E t \in generate_session_token :
          /\ generated' = generated \cup {t}
          /\ Begin(th, "create", None,
                   [NoFrame EXCEPT !.session_token = Str(t)], "create_audit")
          /\ ACTIVE_SESSIONS' = Insert(ACTIVE_SESSIONS, t,
                [created_at |-> now, last_active |-> now])
          /\ history' = [history EXCEPT !.destroyed = @ \ {t}]
    /\ UNCHANGED <<logSink, now, ticks, completed, transcribes>>

\* audit_log('SESSION_CREATED', ...); return jsonify({...})
CreateAudit(th) ==
    /\ pc[th] = "create_audit"
    /\ LET details == [session_token_hash |->
                           Str(hash_sensitive_data(frame[th].session_token))]
       IN  /\ audit_log("SESSION_CREATED", details, None)
           /\ Return(th, request[th],
                     Audited(frame[th], "SESSION_CREATED", details, None), 200,
                     [session_token |-> frame[th].session_token,
                      expires_in |-> PyInt(ExpiresIn)])
    /\ history' = [history EXCEPT !.returned = @ \cup {frame[th].session_token.val}]
    /\ UNCHANGED <<ACTIVE_SESSIONS, now, ticks, issued, transcribes, generated>>

(***************************************************************************)
(* POST /api/transcribe                                                    *)
(***************************************************************************)
\* data = request.get_json(); session_token = data.get('session_token');
\* if not session_token or session_token not in ACTIVE_SESSIONS
\* `not session_token or session_token not in ACTIVE_SESSIONS`
SessionCheck(session_token) ==
    IF ~Truthy(session_token) THEN "unauthorized"
    ELSE IF Unhashable(session_token) THEN "raise"
    ELSE IF ~InSessions(session_token) THEN "unauthorized"
    ELSE "ok"

TranscribeCheck(th) ==
    /\ transcribes < MaxTranscribes
    /\ transcribes' = transcribes + 1
    /\ \E data \in Bodies :
          LET session_token == TokenOf(data)
              fr == [NoFrame EXCEPT !.session_token = session_token]
          IN  IF data = None
              THEN Begin(th, "transcribe", data,
                         [NoFrame EXCEPT !.e = NoAttribute("get")],
                         "transcribe_except")
              ELSE IF SessionCheck(session_token) = "unauthorized"
              THEN Begin(th, "transcribe", data, fr, "transcribe_unauthorized")
              ELSE IF SessionCheck(session_token) = "raise"
              THEN Begin(th, "transcribe", data,
                         [fr EXCEPT !.e = UnhashableType], "transcribe_except")
              ELSE Begin(th, "transcribe", data,
                         [fr EXCEPT
                            !.found = TRUE,
                            !.age = now - ACTIVE_SESSIONS[session_token.val].created_at],
                         "transcribe_touch")
    /\ UNCHANGED <<ACTIVE_SESSIONS, logSink, now, ticks, completed, generated,
                   history>>

\* audit_log('UNAUTHORIZED_ACCESS', ...); return jsonify({'error': 'Unauthorized'}), 401
TranscribeUnauthorized(th) ==
    /\ pc[th] = "transcribe_unauthorized"
    /\ LET details == [reason |-> Str("Invalid session token")]
       IN  /\ audit_log("UNAUTHORIZED_ACCESS", details, None)
           /\ Return(th, request[th],
                     Audited(frame[th], "UNAUTHORIZED_ACCESS", details, None),
                     401, [error |-> Str("Unauthorized")])
    /\ UNCHANGED <<ACTIVE_SESSIONS, now, ticks, issued, transcribes, generated, history>>

\* a missing entry is made on the way (a setdefault before the assignment)
SetLastActiveOrInsert(sessions, k, t) ==
    IF k \in DOMAIN sessions
    THEN [sessions EXCEPT ![k].last_active = t]
    ELSE Insert(sessions, k, [created_at |-> t, last_active |-> t])
\* the assignment is lost: the entry keeps its last_active
SetLastActiveLost(sessions, k, t) == sessions
\* sessions[k]['last_active'] = t: the subscript sessions[k] raises KeyError
\* on a missing key before anything is written
SetLastActive(sessions, k, t) ==
    IF k \in DOMAIN sessions
    THEN [sessions EXCEPT ![k].last_active = t]
    ELSE sessions

\* the handler goes from its check to its audit; the update is left out
TranscribeTouchSkipped(th) ==
    /\ pc[th] = "transcribe_touch"
    /\ Goto(th, frame[th], "transcribe_audit")
    /\ UNCHANGED <<ACTIVE_SESSIONS, logSink, now, ticks, completed, transcribes,
                   generated, history>>
\* ACTIVE_SESSIONS[session_token]['last_active'] = datetime.utcnow()
TranscribeTouch(th) ==
    /\ pc[th] = "transcribe_touch"
    /\ LET session_token == frame[th].session_token
       IN  /\ ACTIVE_SESSIONS' =
                 SetLastActive(ACTIVE_SESSIONS, session_token.val, now)
           /\ IF InSessions(session_token)
              THEN Goto(th, [frame[th] EXCEPT !.touched = TRUE], "transcribe_audit")
              ELSE Goto(th, [frame[th] EXCEPT !.e = KeyError(session_token.val)],
                        "transcribe_except")
    /\ UNCHANGED <<logSink, now, ticks, completed, transcribes, generated, history>>

\* transcription = data.get('transcription', ''); model_type = data.get('model', 'openai');
\* audit_log('TRANSCRIPTION_PROCESSED', {...}, session_id=hash_sensitive_data(session_token))
TranscribeAudit(th) ==
    /\ pc[th] = "transcribe_audit"
    /\ \E data \in [transcription : ClientTranscriptions, model : ClientModels] :
          LET transcription == Get(data, "transcription", Str(""))
              model_type == Get(data, "model", Str("openai"))
              fr == [frame[th] EXCEPT !.transcription = transcription,
                                      !.model_type = model_type]
          IN  IF CanHash(transcription)
              THEN LET details ==
                          [model |-> model_type,
                           transcription_hash |->
                               Str(hash_sensitive_data(transcription)),
                           length |-> PyInt(Len(transcription.val))]
                       session_id ==
                          Str(hash_sensitive_data(frame[th].session_token))
                   IN  /\ audit_log("TRANSCRIPTION_PROCESSED", details, session_id)
                       /\ Goto(th, Audited(fr, "TRANSCRIPTION_PROCESSED",
                                           details, session_id),
                               "transcribe_ai")
              ELSE /\ Goto(th, [fr EXCEPT !.e = NoAttribute("encode")],
                           "transcribe_except")
                   /\ UNCHANGED logSink
    /\ UNCHANGED <<ACTIVE_SESSIONS, now, ticks, completed, transcribes, generated, history>>

\* the text of the exception goes to the client
ErrorBodyRaw(e) == [error |-> Str(e.msg)]
\* jsonify({'error': 'Internal server error'}) for the exception e
ErrorBody(e) == [error |-> Str("Internal server error")]

\* the default provider key is reported instead of the one asked for
SuccessBodyDefaultModel(response_content, model_type) ==
    [success |-> TRUE, response |-> response_content, model |-> Str("openai")]
\* jsonify({'success': True, 'response': response_content, 'model': model_type, ...})
SuccessBody(response_content, model_type) ==
    [success |-> TRUE, response |-> response_content, model |-> model_type]

\* the request to the provider is sent once more
CallProviderAgain(fr) == [fr EXCEPT !.provider_calls = @ + 2]
\* client.chat.completions.create(...) / client.messages.create(...): one
\* request to the provider, whatever comes of it
CallProvider(fr) == [fr EXCEPT !.provider_calls = @ + 1]

\* process_with_ai fails: logger.error(...); raise
AIFailure(th, fr, exc) ==
    /\ logSink' = Append(logSink, ErrorLine(
          "AI processing error with " \o fr.model_type.val \o ": " \o exc.msg))
    /\ Goto(th, [fr EXCEPT !.e = exc], "transcribe_except")
    /\ UNCHANGED completed

\* response_content = process_with_ai(transcription, model_type);
\* return jsonify({'success': True, ...})
process_with_ai(th) ==
    /\ pc[th] = "transcribe_ai"
    /\ LET model_type == frame[th].model_type
           called == CallProvider(frame[th])
       IN  IF model_type.val \in Providers
           THEN \/ \E text \in ProviderTexts :
                     /\ Return(th, request[th],
                               [called EXCEPT !.provider_text = Str(text)], 200,
                               SuccessBody(Str(text), model_type))
                     /\ UNCHANGED <<logSink, issued>>
                \/ AIFailure(th, called, Exc("ProviderError", "Connection error."))
           ELSE AIFailure(th, frame[th],
                          Exc("ValueError",
                              "Unsupported model type: " \o model_type.val))
    /\ UNCHANGED <<ACTIVE_SESSIONS, now, ticks, transcribes, generated, history>>

\* except Exception as e: logger.error(...); audit_log('ERROR', {'error': str(e)});
\* return jsonify({'error': 'Internal server error'}), 500
TranscribeExcept(th) ==
    /\ pc[th] = "transcribe_except"
    /\ LET e == frame[th].e
           details == [error |-> Str(e.msg)]
       IN  /\ logSink' = logSink \o
                 << ErrorLine("Error processing transcription: " \o e.msg),
                    AuditLine("ERROR", details, None) >>
           /\ Return(th, request[th], Audited(frame[th], "ERROR", details, None),
                     500, ErrorBody(e))
    /\ UNCHANGED <<ACTIVE_SESSIONS, now, ticks, issued, transcribes, generated, history>>

(***************************************************************************)
(* POST /api/session/validate                                              *)
(***************************************************************************)
\* is_valid = session_token in ACTIVE_SESSIONS; return jsonify({'valid': is_valid, ...})
validate_session(th) ==
    /\ Picks(th)
    /\ issued < MaxRequests
    /\ issued' = issued + 1
    /\ \E data \in Bodies :
          LET session_token == TokenOf(data)
              req == Received("validate", data)
              is_valid == InSessions(session_token)
              fr == [NoFrame EXCEPT
                       !.session_token = session_token,
                       !.found = is_valid,
                       !.age = IF is_valid
                               THEN now - ACTIVE_SESSIONS[session_token.val].created_at
                               ELSE 0]
          IN  IF data = None
              THEN Unhandled(th, req, NoFrame, NoAttribute("get"))
              ELSE IF Unhashable(session_token)
              THEN Unhandled(th, req, fr, UnhashableType)
              ELSE /\ Return(th, req, fr, 200,
                             [valid |-> is_valid])
                   /\ UNCHANGED logSink
    /\ UNCHANGED <<ACTIVE_SESSIONS, now, ticks, transcribes, generated, history>>

(***************************************************************************)
(* POST /api/session/destroy                                               *)
(***************************************************************************)
\* a destroy request for the token of data is received / is over
DestroyIssued(h, data) ==
    [h EXCEPT !.destroy_issued =
        IF IsStr(TokenOf(data)) THEN @ \cup {TokenOf(data).val} ELSE @]
DestroyOver(h, data) ==
    [h EXCEPT !.destroyed =
        IF IsStr(TokenOf(data)) THEN @ \cup {TokenOf(data).val} ELSE @]

\* if session_token in ACTIVE_SESSIONS: ... return jsonify({'success': True})
DestroyCheck(th) ==
    /\ Picks(th)
    /\ issued < MaxRequests
    /\ issued' = issued + 1
    /\ \E data \in Bodies :
          LET session_token == TokenOf(data)
              req == Received("destroy", data)
              fr == [NoFrame EXCEPT !.session_token = session_token]
          IN  IF data = None
              THEN /\ Unhandled(th, req, NoFrame, NoAttribute("get"))
                   /\ history' = DestroyOver(DestroyIssued(history, data), data)
              ELSE IF Unhashable(session_token)
              THEN /\ Unhandled(th, req, fr, UnhashableType)
                   /\ history' = DestroyOver(DestroyIssued(history, data), data)
              ELSE IF InSessions(session_token)
              THEN /\ request' = [request EXCEPT ![th] = req]
                   /\ frame' = [frame EXCEPT ![th] = [fr EXCEPT !.found = TRUE]]
                   /\ pc' = [pc EXCEPT ![th] = "destroy_del"]
                   /\ history' = DestroyIssued(history, data)
                   /\ UNCHANGED <<logSink, completed>>
              ELSE /\ Return(th, req, fr, 200, [success |-> TRUE])
                   /\ history' = DestroyOver(DestroyIssued(history, data), data)
                   /\ UNCHANGED logSink
    /\ UNCHANGED <<ACTIVE_SESSIONS, now, ticks, transcribes, generated>>

\* the entry is dropped if it is there (a pop with a default), and the
\* handler goes on to its audit either way
DestroyDelQuiet(th) ==
    /\ pc[th] = "destroy_del"
    /\ ACTIVE_SESSIONS' = Delete(ACTIVE_SESSIONS, frame[th].session_token.val)
    /\ Goto(th, frame[th], "destroy_audit")
    /\ UNCHANGED <<logSink, completed, history, now, ticks, transcribes, generated>>
\* del ACTIVE_SESSIONS[session_token]
DestroyDel(th) ==
    /\ pc[th] = "destroy_del"
    /\ LET session_token == frame[th].session_token
       IN  IF InSessions(session_token)
           THEN /\ ACTIVE_SESSIONS' = Delete(ACTIVE_SESSIONS, session_token.val)
                /\ Goto(th, frame[th], "destroy_audit")
                /\ UNCHANGED <<logSink, completed, history>>
           ELSE /\ Unhandled(th, request[th], frame[th],
                             KeyError(session_token.val))
                /\ history' = DestroyOver(history, request[th].data)
                /\ UNCHANGED <<ACTIVE_SESSIONS, issued>>
    /\ UNCHANGED <<now, ticks, transcribes, generated>>

\* the handler returns without its audit
DestroyWithoutAudit(th) ==
    /\ pc[th] = "destroy_audit"
    /\ Return(th, request[th], frame[th], 200, [success |-> TRUE])
    /\ history' = DestroyOver(history, request[th].data)
    /\ UNCHANGED <<ACTIVE_SESSIONS, logSink, now, ticks, issued, transcribes,
                   generated>>
\* audit_log('SESSION_DESTROYED', ...); return jsonify({'success': True})
DestroyAudit(th) ==
    /\ pc[th] = "destroy_audit"
    /\ LET details == [session_token_hash |->
                           Str(hash_sensitive_data(frame[th].session_token))]
       IN  /\ audit_log("SESSION_DESTROYED", details, None)
           /\ Return(th, request[th],
                     Audited(frame[th], "SESSION_DESTROYED", details, None), 200,
                     [success |-> TRUE])
    /\ history' = DestroyOver(history, request[th].data)
    /\ UNCHANGED <<ACTIVE_SESSIONS, now, ticks, issued, transcribes, generated>>

(***************************************************************************)
(* The server.                                                             *)
(***************************************************************************)
Next ==
    \/ Tick
    \/ \E th \in Threads :
          \/ create_session(th)
          \/ CreateAudit(th)
          \/ TranscribeCheck(th)
          \/ TranscribeUnauthorized(th)
          \/ TranscribeTouch(th)
          \/ TranscribeAudit(th)
          \/ process_with_ai(th)
          \/ TranscribeExcept(th)
          \/ validate_session(th)
          \/ DestroyCheck(th)
          \/ DestroyDel(th)
          \/ DestroyAudit(th)

Spec == Init /\ [][Next]_vars

(***************************************************************************)
(* What the properties below speak about.                                  *)
(***************************************************************************)
\* the audit events in the log sink
AuditEvents ==
    {logSink[i].audit : i \in {j \in DOMAIN logSink : logSink[j].levelname = "INFO"}}

\* the event types a handler with locals fr has recorded, in order
EventsOf(fr) == [i \in DOMAIN fr.audits |-> fr.audits[i].audit.event]

\* the request answered last was sent to `endpoint`
Answered(endpoint) == completed.request.endpoint = endpoint

\* the locals of the handlers under way, and of the one that returned last
Frames(endpoint) ==
    {frame[th] : th \in {w \in Threads : request[w].endpoint = endpoint}}
       \cup (IF Answered(endpoint) THEN {completed.frame} ELSE {})

\* the text t occurs in the value v of an audit event
Mentions(v, t) == IsStr(v) /\ Contains(v.val, t)

\* the audit event refers to the text t in clear
InClear(event, t) ==
    \/ Mentions(event.session_id, t)
    \/ \E k \in DOMAIN event.details : Mentions(event.details[k], t)

(***************************************************************************)
(* C1.  A transcribe request whose session_token is missing, empty or not  *)
(* a key of the session map is answered 401 {error: "Unauthorized"}, has   *)
(* recorded exactly one UNAUTHORIZED_ACCESS event and has not written the  *)
(* session map.                                                            *)
(***************************************************************************)
C1_UnauthorizedIs401 ==
    (Answered("transcribe") /\ ~completed.frame.found) =>
        /\ completed.response.status = 401
        /\ completed.response.body = [error |-> Str("Unauthorized")]
        /\ EventsOf(completed.frame) = <<"UNAUTHORIZED_ACCESS">>
        /\ ~completed.frame.touched

(***************************************************************************)
(* C2.  A transcribe request calls the provider at most once, and only     *)
(* after it has found its token in the session map.                       *)
(***************************************************************************)
C2_ProviderCalledAtMostOnce ==
    \A fr \in Frames("transcribe") :
        /\ fr.provider_calls <= 1
        /\ fr.provider_calls > 0 => fr.found

\* a provider call has failed, and the request was answered without another
C2_Witness ==
    /\ Answered("transcribe")
    /\ completed.frame.e.type = "ProviderError"
    /\ completed.frame.provider_calls = 1
    /\ completed.response.status = 500

(***************************************************************************)
(* C3.  A validate request for a token that create has returned, received  *)
(* before any destroy request for that token, answers valid: true.         *)
(***************************************************************************)
C3_ValidAfterCreate ==
    (/\ Answered("validate")
     /\ completed.request.after_create
     /\ completed.request.before_destroy) =>
        /\ completed.response.status = 200
        /\ completed.response.body = [valid |-> TRUE]

C3_Witness ==
    /\ Answered("validate")
    /\ completed.request.after_create
    /\ completed.request.before_destroy
    /\ completed.response.body = [valid |-> TRUE]

(***************************************************************************)
(* C4.  Once a destroy request for token t is over, and as long as no      *)
(* create inserts t again, t is not a key of the session map, a validate   *)
(* of t answers valid: false and a transcribe with t is answered 401.      *)
(***************************************************************************)
C4_DestroyedStaysOut ==
    /\ \A t \in history.destroyed : t \notin DOMAIN ACTIVE_SESSIONS
    /\ (Answered("validate") /\ completed.request.after_destroy) =>
           completed.response.body = [valid |-> FALSE]
    /\ (Answered("transcribe") /\ completed.request.after_destroy) =>
           completed.response.status = 401

\* a token that was a key is validated after its destroy
C4_Witness ==
    /\ Answered("validate")
    /\ completed.request.after_destroy
    /\ completed.frame.session_token.val \in generated
    /\ completed.response.body = [valid |-> FALSE]

(***************************************************************************)
(* C5.  Expiry is not enforced.  Only the del of a destroy request takes a *)
(* key out of the session map; a validate of a key answers valid: true and *)
(* a transcribe with a key passes the session check, whatever the age of   *)
(* the session.                                                            *)
(***************************************************************************)
OnlyDestroyRemoves ==
    \A t \in DOMAIN ACTIVE_SESSIONS :
        t \notin DOMAIN ACTIVE_SESSIONS' =>
            \E th \in Threads : /\ pc[th] = "destroy_del"
                                /\ frame[th].session_token = Str(t)
                                /\ pc'[th] = "destroy_audit"

KeyPassesAtAnyAge ==
    \A t \in DOMAIN ACTIVE_SESSIONS :
        /\ (/\ completed' # completed
            /\ completed'.request.endpoint = "validate"
            /\ completed'.request.data = [session_token |-> Str(t)]) =>
               completed'.response.body = [valid |-> TRUE]
        /\ \A th \in Threads :
              (/\ request[th].endpoint = "none"
               /\ request'[th].endpoint = "transcribe"
               /\ request'[th].data = [session_token |-> Str(t)]) =>
                  pc'[th] = "transcribe_touch"

\* C5: every step removes keys by a destroy only and lets a key pass the
\* session check of validate and transcribe, at any age
C5_ExpiryNotEnforced == [][OnlyDestroyRemoves /\ KeyPassesAtAnyAge]_vars

\* a session older than the advertised lifetime is found valid
C5_Witness ==
    /\ Answered("validate")
    /\ completed.frame.age > ExpiresIn
    /\ completed.response.body = [valid |-> TRUE]

(***************************************************************************)
(* C6.  No audit event holds a session token in clear, in its session_id   *)
(* or in its details.                                                      *)
(***************************************************************************)
C6_NoTokenInClear ==
    \A event \in AuditEvents : \A t \in generated : ~InClear(event, t)

(***************************************************************************)
(* C7.  The TRANSCRIPTION_PROCESSED event of a request with transcription  *)
(* text T and provider "openai" is in the log sink and holds the hash and  *)
(* the length of T, and T nowhere.                                         *)
(***************************************************************************)
C7_TranscriptionHashed ==
    \A fr \in Frames("transcribe") :
        \A i \in DOMAIN fr.audits :
            LET event == fr.audits[i].audit
                T == fr.transcription.val
            IN  (/\ event.event = "TRANSCRIPTION_PROCESSED"
                 /\ fr.model_type = Str("openai")
                 /\ T # "") =>
                    /\ event \in AuditEvents
                    /\ DOMAIN event.details = {"model", "transcription_hash", "length"}
                    /\ event.details.transcription_hash = Str(Sha256Hex16(T))
                    /\ event.details.length = PyInt(Len(T))
                    /\ ~InClear(event, T)

C7_Witness ==
    \E fr \in Frames("transcribe") :
        /\ fr.model_type = Str("openai")
        /\ fr.transcription = Str("patient has fever")
        /\ EventsOf(fr) = <<"TRANSCRIPTION_PROCESSED">>

(***************************************************************************)
(* C8.  A transcribe request that found its token is answered 200 only if  *)
(* its provider key is one of openai, anthropic, groq and the provider     *)
(* returned a text; otherwise (an unknown provider key, a failed provider  *)
(* call) it is answered 500 {error: "Internal server error"}, which is not *)
(* the text of the exception, and has recorded an ERROR event.             *)
(***************************************************************************)
C8_GenericError ==
    (Answered("transcribe") /\ completed.frame.found) =>
        LET fr == completed.frame
            ok == /\ IsStr(fr.model_type)
                  /\ fr.model_type.val \in Providers
                  /\ fr.provider_text # None
        IN  /\ ok => completed.response.status = 200
            /\ ~ok => /\ completed.response.status = 500
                      /\ completed.response.body =
                            [error |-> Str("Internal server error")]
                      /\ completed.response.body.error.val # fr.e.msg
                      /\ \E i \in DOMAIN fr.audits :
                            /\ fr.audits[i].audit.event = "ERROR"
                            /\ fr.audits[i].audit \in AuditEvents

\* an unknown provider key
C8_Witness ==
    /\ Answered("transcribe")
    /\ completed.frame.found
    /\ completed.frame.model_type = Str("foo")
    /\ completed.response.status = 500

(***************************************************************************)
(* C9.  A transcribe request to which the provider has returned the text R *)
(* is answered 200 with success: true, response R and the provider key it  *)
(* asked for as model.                                                     *)
(***************************************************************************)
C9_ResponsePassedThrough ==
    (Answered("transcribe") /\ completed.frame.provider_text # None) =>
        /\ completed.frame.found
        /\ completed.frame.model_type.val \in Providers
        /\ completed.response.status = 200
        /\ completed.response.body.success = TRUE
        /\ completed.response.body.response = completed.frame.provider_text
        /\ completed.response.body.model = completed.frame.model_type

C9_Witness ==
    /\ Answered("transcribe")
    /\ completed.request.after_create
    /\ completed.frame.model_type = Str("anthropic")
    /\ completed.frame.provider_text = Str("stub-response")
    /\ completed.response.status = 200

(***************************************************************************)
(* C10.  A destroy request is always answered {success: true}.             *)
(***************************************************************************)
C10_DestroyAlwaysSucceeds ==
    Answered("destroy") =>
        /\ completed.response.status = 200
        /\ completed.response.body = [success |-> TRUE]

(***************************************************************************)
(* Steps of the handlers, as the properties on steps below see them.       *)
(***************************************************************************)
\* the audit events of the log sink, in the order they were recorded
AuditTrail == SelectSeq(logSink, LAMBDA line : line.levelname = "INFO")

\* the step receives a request to `endpoint` and answers it at once
AnswersAtOnce(endpoint) ==
    /\ issued' # issued
    /\ pc' = pc
    /\ completed'.request.endpoint = endpoint

\* the step records a SESSION_DESTROYED event for token t
RecordsDestroyed(t) ==
    /\ Len(AuditTrail') = Len(AuditTrail) + 1
    /\ AuditTrail'[Len(AuditTrail')].audit =
          [event |-> "SESSION_DESTROYED", session_id |-> None,
           details |-> [session_token_hash |-> Str(Sha256Hex16(t))]]

(***************************************************************************)
(* C11.  A destroy request whose token is not a key of the session map,    *)
(* when the request tests it or when it deletes it, leaves the session map *)
(* as it is, records no audit event and is over; a SESSION_DESTROYED event *)
(* for t is recorded only by a destroy request that has taken the key t    *)
(* out of the session map.                                                 *)
(***************************************************************************)
DestroyOfNoKeyChangesNothing ==
    /\ (/\ AnswersAtOnce("destroy")
        /\ ~InSessions(TokenOf(completed'.request.data))) =>
           /\ ACTIVE_SESSIONS' = ACTIVE_SESSIONS
           /\ AuditTrail' = AuditTrail
    /\ \A th \in Threads :
          (/\ pc[th] = "destroy_del"
           /\ pc'[th] # "destroy_del"
           /\ ~InSessions(frame[th].session_token)) =>
              /\ ACTIVE_SESSIONS' = ACTIVE_SESSIONS
              /\ AuditTrail' = AuditTrail
              /\ pc'[th] = "idle"

DestroyedEventOnlyAfterRemoval ==
    /\ \A t \in Tokens :
          RecordsDestroyed(t) =>
              \E th \in Threads : /\ pc[th] = "destroy_audit"
                                  /\ request[th].endpoint = "destroy"
                                  /\ frame[th].session_token = Str(t)
    /\ \A th \in Threads :
          (pc'[th] = "destroy_audit" /\ pc[th] # "destroy_audit") =>
              /\ frame'[th].session_token.val \in DOMAIN ACTIVE_SESSIONS
              /\ DOMAIN ACTIVE_SESSIONS' =
                    DOMAIN ACTIVE_SESSIONS \ {frame'[th].session_token.val}

\* C11: every step of a destroy request whose token is no key changes
\* neither the session map nor the audit trail, and a SESSION_DESTROYED
\* event comes only from a destroy request that removed the key
C11_DestroyOfNoKey ==
    [][DestroyOfNoKeyChangesNothing /\ DestroyedEventOnlyAfterRemoval]_vars

\* a destroy of a token that was destroyed before is answered, with no event
C11_Witness ==
    /\ Answered("destroy")
    /\ completed.request.after_destroy
    /\ completed.frame.session_token.val \in generated
    /\ ~completed.frame.found
    /\ EventsOf(completed.frame) = << >>
    /\ completed.response.status = 200

(***************************************************************************)
(* C12.  A validate request changes neither the session map (its keys,     *)
(* the created_at and last_active of every session) nor the audit trail,   *)
(* whatever its token; a validate request that carries no token is         *)
(* answered 200 {valid: false}.                                            *)
(***************************************************************************)
ValidateLeavesStateAlone ==
    AnswersAtOnce("validate") =>
        /\ ACTIVE_SESSIONS' = ACTIVE_SESSIONS
        /\ AuditTrail' = AuditTrail

ValidateOfNoTokenIsFalse ==
    (/\ AnswersAtOnce("validate")
     /\ TokenOf(completed'.request.data) = None) =>
        /\ completed'.response.status = 200
        /\ completed'.response.body = [valid |-> FALSE]

\* C12: every validate step leaves the session map and the audit trail as
\* they are, and answers valid: false when the request has no token
C12_ValidateNeverMutates ==
    [][ValidateLeavesStateAlone /\ ValidateOfNoTokenIsFalse]_vars

(***************************************************************************)
(* C13.  No step of a transcribe request adds a key to the session map,    *)
(* whatever destroy requests run beside it; a key is added only by the     *)
(* insertion of a create request, under the token the create generated.    *)
(***************************************************************************)
TranscribeAddsNoKey ==
    \A th \in Threads :
        (/\ pc'[th] # pc[th]
         /\ "transcribe" \in {request[th].endpoint, request'[th].endpoint}) =>
            DOMAIN ACTIVE_SESSIONS' \subseteq DOMAIN ACTIVE_SESSIONS

KeysAddedOnlyByCreate ==
    \A t \in DOMAIN ACTIVE_SESSIONS' \ DOMAIN ACTIVE_SESSIONS :
        \E th \in Threads : /\ pc[th] = "idle"
                            /\ pc'[th] = "create_audit"
                            /\ request'[th].endpoint = "create"
                            /\ frame'[th].session_token = Str(t)

\* C13: in every step, a transcribe request adds no key and a new key
\* comes from a create
C13_TouchNeverCreates == [][TranscribeAddsNoKey /\ KeysAddedOnlyByCreate]_vars

\* a transcribe request has reached its update after a destroy removed the
\* key: the update raised, and the key is still out of the session map
C13_Witness ==
    /\ Answered("transcribe")
    /\ completed.frame.found
    /\ completed.frame.e.type = "KeyError"
    /\ completed.frame.session_token.val \notin DOMAIN ACTIVE_SESSIONS

(***************************************************************************)
(* C14.  The session check and the last_active update of a transcribe      *)
(* request are one step with respect to a destroy of the same token: a     *)
(* request that found its token at the check still finds it at the update, *)
(* has updated last_active when it is answered, and is never answered 500  *)
(* for a key that went missing between the check and the update.           *)
(***************************************************************************)
C14_CheckAndTouchAtomic ==
    /\ \A th \in Threads :
          pc[th] = "transcribe_touch" =>
              frame[th].session_token.val \in DOMAIN ACTIVE_SESSIONS
    /\ (Answered("transcribe") /\ completed.frame.found) =>
          /\ completed.frame.touched
          /\ completed.frame.e.type # "KeyError"

(***************************************************************************)
(* C15, as the specification states it.  Every operation that presents a   *)
(* token that is a key of the session map sets the last_active of that     *)
(* session to the time of the operation: a validate request when it reads  *)
(* the map, a transcribe request by the time it is answered.               *)
(***************************************************************************)
ValidateSetsLastActive ==
    \A t \in DOMAIN ACTIVE_SESSIONS :
        (/\ AnswersAtOnce("validate")
         /\ completed'.request.data = [session_token |-> Str(t)]) =>
            /\ t \in DOMAIN ACTIVE_SESSIONS'
            /\ ACTIVE_SESSIONS'[t].last_active = now

TranscribeHasSetLastActive ==
    (completed'.request.endpoint = "transcribe" /\ completed'.frame.found) =>
        completed'.frame.touched

\* C15 (original): validate and transcribe both update last_active
C15_EveryOperationTouches ==
    [][ValidateSetsLastActive /\ TranscribeHasSetLastActive]_vars

(***************************************************************************)
(* C15, amended.  last_active is written by the update of a transcribe     *)
(* request and by nothing else after the insertion: a transcribe request   *)
(* that presents a key goes on to its update, and the update sets the      *)
(* last_active of its session to the current time when the key is still in *)
(* the session map, and raises without writing when it is not; a validate  *)
(* request leaves every last_active as it is.                              *)
(***************************************************************************)
TranscribeOfKeyGoesToUpdate ==
    \A th \in Threads : \A t \in DOMAIN ACTIVE_SESSIONS :
        (/\ pc[th] = "idle"
         /\ request'[th].endpoint = "transcribe"
         /\ request'[th].data = [session_token |-> Str(t)]) =>
            pc'[th] = "transcribe_touch"

UpdateSetsLastActive ==
    \A th \in Threads :
        (pc[th] = "transcribe_touch" /\ pc'[th] # "transcribe_touch") =>
            LET t == frame[th].session_token.val
            IN  IF t \in DOMAIN ACTIVE_SESSIONS
                THEN /\ ACTIVE_SESSIONS' =
                          [ACTIVE_SESSIONS EXCEPT ![t].last_active = now]
                     /\ pc'[th] = "transcribe_audit"
                ELSE /\ ACTIVE_SESSIONS' = ACTIVE_SESSIONS
                     /\ pc'[th] = "transcribe_except"

OnlyUpdateWritesLastActive ==
    \A t \in DOMAIN ACTIVE_SESSIONS \cap DOMAIN ACTIVE_SESSIONS' :
        ACTIVE_SESSIONS'[t].last_active # ACTIVE_SESSIONS[t].last_active =>
            \E th \in Threads : /\ pc[th] = "transcribe_touch"
                                /\ frame[th].session_token = Str(t)

ValidateKeepsLastActive ==
    AnswersAtOnce("validate") => ACTIVE_SESSIONS' = ACTIVE_SESSIONS

\* C15 (amended): transcribe updates last_active at its update step,
\* validate does not
C15_OnlyTranscribeTouches ==
    [][/\ TranscribeOfKeyGoesToUpdate
       /\ UpdateSetsLastActive
       /\ OnlyUpdateWritesLastActive
       /\ ValidateKeepsLastActive]_vars

\* a session that a transcribe request has updated after the clock moved,
\* and that a validate request has found valid since
C15_Witness ==
    /\ Answered("validate")
    /\ completed.frame.found
    /\ LET t == completed.frame.session_token.val
       IN  /\ t \in DOMAIN ACTIVE_SESSIONS
           /\ ACTIVE_SESSIONS[t].last_active > ACTIVE_SESSIONS[t].created_at
           /\ ACTIVE_SESSIONS[t].last_active = now

(***************************************************************************)
(* C16.  A transcribe request with a valid token runs: session check,      *)
(* last_active update, TRANSCRIPTION_PROCESSED audit, provider call, then  *)
(* the 200 response or the ERROR audit and the 500 response.  So a request *)
(* whose provider call failed has updated last_active and has left a       *)
(* TRANSCRIPTION_PROCESSED event and, after it, an ERROR event in the      *)
(* audit trail.                                                            *)
(***************************************************************************)
\* the audit trail holds the event `first` and, after it, the event `second`
TrailHasInOrder(first, second) ==
    \E i, j \in DOMAIN AuditTrail :
        /\ i < j
        /\ AuditTrail[i].audit = first
        /\ AuditTrail[j].audit = second

\* what the handler has done so far came in the order of the claim
InOrder(fr) ==
    LET events == EventsOf(fr)
        n == Len(events)
    IN  /\ fr.touched => fr.found
        /\ (\E i \in 1..n : events[i] = "TRANSCRIPTION_PROCESSED") =>
              fr.touched /\ events[1] = "TRANSCRIPTION_PROCESSED"
        /\ fr.provider_calls > 0 =>
              n >= 1 /\ events[1] = "TRANSCRIPTION_PROCESSED"
        /\ \A i \in 1..n : events[i] = "ERROR" => i = n

C16_StepsInOrder ==
    /\ \A fr \in Frames("transcribe") : InOrder(fr)
    /\ \A th \in Threads :
          request[th].endpoint = "transcribe" =>
              "ERROR" \notin {EventsOf(frame[th])[i] : i \in DOMAIN frame[th].audits}
    /\ Answered("transcribe") =>
          LET fr == completed.frame
          IN  /\ completed.response.status = 200 =>
                    /\ fr.provider_calls = 1
                    /\ EventsOf(fr) = <<"TRANSCRIPTION_PROCESSED">>
              /\ (fr.provider_calls > 0 /\ fr.provider_text = None) =>
                    /\ fr.touched
                    /\ completed.response.status = 500
                    /\ EventsOf(fr) = <<"TRANSCRIPTION_PROCESSED", "ERROR">>
                    /\ TrailHasInOrder(fr.audits[1].audit, fr.audits[2].audit)

\* a provider call has failed after the clock moved: the session shows the
\* update, the request shows both events
C16_Witness ==
    /\ Answered("transcribe")
    /\ completed.frame.e.type = "ProviderError"
    /\ EventsOf(completed.frame) = <<"TRANSCRIPTION_PROCESSED", "ERROR">>
    /\ LET t == completed.frame.session_token.val
       IN  /\ t \in DOMAIN ACTIVE_SESSIONS
           /\ ACTIVE_SESSIONS[t].last_active > ACTIVE_SESSIONS[t].created_at

(***************************************************************************)
(* C17.  created_at is set once: as long as t stays a key of the session   *)
(* map, no step (of a transcribe, a validate, a destroy, a later create)   *)
(* changes the created_at of t; and the token a create inserts is not a    *)
(* key of the session map already.                                         *)
(***************************************************************************)
CreatedAtKept ==
    \A t \in DOMAIN ACTIVE_SESSIONS \cap DOMAIN ACTIVE_SESSIONS' :
        ACTIVE_SESSIONS'[t].created_at = ACTIVE_SESSIONS[t].created_at

CreateInsertsNewKey ==
    \A th \in Threads :
        (pc[th] = "idle" /\ pc'[th] = "create_audit") =>
            LET t == frame'[th].session_token.val
            IN  /\ t \notin DOMAIN ACTIVE_SESSIONS
                /\ DOMAIN ACTIVE_SESSIONS' = DOMAIN ACTIVE_SESSIONS \cup {t}
                /\ ACTIVE_SESSIONS'[t].created_at = now

\* C17: every step keeps the created_at of the keys that stay, and a
\* create inserts a key that was not there
C17_CreatedAtSetOnce == [][CreatedAtKept /\ CreateInsertsNewKey]_vars

\* a session updated by a transcribe after the clock moved, beside a
\* session created later: it still has the created_at of its insertion
C17_Witness ==
    \E t, u \in DOMAIN ACTIVE_SESSIONS :
        /\ t # u
        /\ ACTIVE_SESSIONS[t].created_at = 0
        /\ ACTIVE_SESSIONS[t].last_active > ACTIVE_SESSIONS[t].created_at
        /\ ACTIVE_SESSIONS[u].created_at > ACTIVE_SESSIONS[t].created_at

(***************************************************************************)
(* C18.  Whenever no request is in flight, the number of SESSION_CREATED   *)
(* events in the audit trail less the number of SESSION_DESTROYED events   *)
(* is the number of keys of the session map.                               *)
(***************************************************************************)
\* how many events of the type the audit trail holds
CountOf(event_type) ==
    Cardinality({i \in DOMAIN AuditTrail : AuditTrail[i].audit.event = event_type})

NoRequestInFlight == \A th \in Threads : pc[th] = "idle"

C18_TrailCountsKeys ==
    NoRequestInFlight =>
        CountOf("SESSION_CREATED") - CountOf("SESSION_DESTROYED")
            = Cardinality(DOMAIN ACTIVE_SESSIONS)

\* two sessions created and one destroyed: one key is left
C18_Witness ==
    /\ NoRequestInFlight
    /\ CountOf("SESSION_CREATED") = 2
    /\ CountOf("SESSION_DESTROYED") = 1
    /\ Cardinality(DOMAIN ACTIVE_SESSIONS) = 1

=============================================================================
